---------------------------- MODULE Spec2Model ----------------------------
(***************************************************************************)
(* Model of the Azure AI sample scripts.                                   *)
(*                                                                         *)
(* Part 1: AzureTextSummarizer (05-text-summarizer.py).                    *)
(*   SpecCall  - one direct call of extractive_summarization,              *)
(*               abstractive_summarization or conversation_summarization,  *)
(*               step by step, with a history of the remote operations it  *)
(*               started and of the sleeps it made.                        *)
(*   SpecBatch - one call of batch_summarization: the document tasks run   *)
(*               on one event loop, a task gives up control only where     *)
(*               the code awaits (the semaphore, a sleep between retries). *)
(*                                                                         *)
(* Times are in seconds; the processing-time average of the statistics is  *)
(* wall-clock arithmetic and is not modelled.                              *)
(***************************************************************************)
EXTENDS Integers, Sequences, FiniteSets, TLC

(***************************************************************************)
(* Program constants                                                       *)
(***************************************************************************)
max_retries == 3
retry_delay == 1
rate_limit_delay == 2
MinSentenceCount == 1
MaxSentenceCount == 20
SemaphoreSlots == 5
PollInterval == 2

(***************************************************************************)
(* Bounds of the model                                                     *)
(***************************************************************************)
MaxTextLen == 2      \* longest input text of a direct call, in characters
Margin == 2          \* sentence counts tried beyond each end of the valid range
MaxItems == 1        \* most conversation items of a direct call
MaxPolls == 2        \* most "still running" answers to the status poll per job
MaxDocs == 6         \* documents of a batch

(***************************************************************************)
(* Inputs                                                                  *)
(***************************************************************************)
Chars == {" ", "a"}
Texts == UNION {[1..n -> Chars] : n \in 0..MaxTextLen}
SentenceCounts == (MinSentenceCount - Margin)..(MaxSentenceCount + Margin)
SummaryLengths == {"short", "medium", "long", "tiny"}
ItemLists == UNION {[1..n -> {<<"a">>}] : n \in 0..MaxItems}

RECURSIVE LStrip(_)
LStrip(s) == IF s # <<>> /\ Head(s) = " " THEN LStrip(Tail(s)) ELSE s

RECURSIVE RStrip(_)
RStrip(s) ==
  IF s # <<>> /\ s[Len(s)] = " " THEN RStrip(SubSeq(s, 1, Len(s) - 1)) ELSE s

\* str.strip()
Strip(s) == RStrip(LStrip(s))

\* "not text or len(text.strip()) == 0"
TextIsEmpty(t) == t = <<>> \/ Len(Strip(t)) = 0

\* Faulty variant: the upper end of the range excluded.
SentenceCountOutOfRangeOffByOne(n) == ~(MinSentenceCount <= n /\ n < MaxSentenceCount)

\* "not 1 <= sentence_count <= 20"
SentenceCountOutOfRange(n) == ~(MinSentenceCount <= n /\ n <= MaxSentenceCount)

SummaryLengthInvalid(l) == l \notin {"short", "medium", "long"}

\* Faulty variant: the text check without strip(), so a whitespace-only
\* text passes.
InputErrorNoStrip(m, t, n, l, items) ==
  IF m = "conversation"
    THEN items = <<>>
    ELSE \/ t = <<>>
         \/ m = "extractive" /\ SentenceCountOutOfRange(n)
         \/ m = "abstractive" /\ SummaryLengthInvalid(l)

\* The validation at the head of each summarization method: TRUE when it
\* raises ValueError.
InputError(m, t, n, l, items) ==
  IF m = "conversation"
    THEN items = <<>>
    ELSE \/ TextIsEmpty(t)
         \/ m = "extractive" /\ SentenceCountOutOfRange(n)
         \/ m = "abstractive" /\ SummaryLengthInvalid(l)

(***************************************************************************)
(* The service, as the code sees it                                        *)
(***************************************************************************)
\* begin_analyze_actions + poller.result(): a document result, a document
\* result flagged is_error, no document result at all, HttpResponseError
\* with status 429 or another status, any other exception.
AnalyzeResponses == {"ok", "doc_error", "no_result", "http429", "http_error", "exception"}
\* requests.post of the job: accepted with an operation-location header,
\* accepted without it, HTTPError 429 / other from raise_for_status, any
\* other exception.
PostResponses == {"accepted", "no_location", "http429", "http_error", "exception"}
\* requests.get of the job status.  "bad_payload" is a succeeded job whose
\* body the parsing loop cannot read (KeyError).
PollResponses == {"succeeded", "failed", "running", "bad_payload",
                  "http429", "http_error", "exception"}

\* Which handler of the retry loop a response ends in.
Classify(r) ==
  CASE r \in {"ok", "succeeded"} -> "success"
    [] r = "accepted" -> "accepted"
    [] r = "running" -> "running"
    [] r = "no_result" -> "no_result"
    [] r = "http429" -> "rate_limit"
    [] r = "http_error" -> "http_error"
    [] OTHER -> "error"

\* The handlers the answers of begin_analyze_actions can end in.
AnalyzeClasses == {Classify(r) : r \in AnalyzeResponses}

RECURSIVE Pow2(_)
Pow2(k) == IF k = 0 THEN 1 ELSE 2 * Pow2(k - 1)

\* Faulty variant: a backoff that grows linearly instead of doubling.
BackoffDelayLinear(base, k) == base * (k + 1)

\* base * (2 ** attempt)
BackoffDelay(base, k) == base * Pow2(k)

\* Faulty variant: the last attempt recognised one attempt late.
LastAttemptLate(k) == k = max_retries

\* "if attempt == self.max_retries - 1: raise"
LastAttempt(k) == k = max_retries - 1

\* Faulty variant: every HTTP error is retried like a 429.
OnResponseRetryAllHttp(cls, k) ==
  CASE cls \in {"rate_limit", "http_error"} ->
         [next |-> "sleep", delay |-> BackoffDelay(rate_limit_delay, k)]
    [] cls = "error" ->
         IF LastAttempt(k)
           THEN [next |-> "raise", delay |-> 0]
           ELSE [next |-> "sleep", delay |-> BackoffDelay(retry_delay, k)]
    [] cls = "no_result" -> [next |-> "break", delay |-> 0]
    [] OTHER -> [next |-> "return", delay |-> 0]

\* The body of one retry-loop iteration after the remote operation has
\* answered: what the try / except clauses do with the answer.
OnResponse(cls, k) ==
  CASE cls = "rate_limit" ->
         [next |-> "sleep", delay |-> BackoffDelay(rate_limit_delay, k)]
    [] cls = "http_error" -> [next |-> "raise", delay |-> 0]
    [] cls = "error" ->
         IF LastAttempt(k)
           THEN [next |-> "raise", delay |-> 0]
           ELSE [next |-> "sleep", delay |-> BackoffDelay(retry_delay, k)]
    [] cls = "no_result" -> [next |-> "break", delay |-> 0]
    [] OTHER -> [next |-> "return", delay |-> 0]

\* Faulty variant: a retry loop that allows one attempt too many.
LoopContinuesOneMore(k) == k + 1 < max_retries + 1

\* "for attempt in range(self.max_retries)": is there an iteration after k?
LoopContinues(k) == k + 1 < max_retries

(***************************************************************************)
(* Statistics                                                              *)
(***************************************************************************)
NoStats ==
  [total_requests |-> 0, successful_requests |-> 0, failed_requests |-> 0,
   total_characters_processed |-> 0]

\* Faulty variant: an update that forgets to count a failure.
update_stats_drop_failure(s, character_count, success) ==
  [s EXCEPT !.total_requests = @ + 1,
            !.total_characters_processed = @ + character_count,
            !.successful_requests = IF success THEN @ + 1 ELSE @]

\* _update_stats
update_stats(s, character_count, success) ==
  [s EXCEPT !.total_requests = @ + 1,
            !.total_characters_processed = @ + character_count,
            !.successful_requests = IF success THEN @ + 1 ELSE @,
            !.failed_requests = IF success THEN @ ELSE @ + 1]

RECURSIVE SumLen(_)
SumLen(items) == IF items = <<>> THEN 0 ELSE Len(Head(items)) + SumLen(Tail(items))

\* SummaryResult(summary_type=..., character_count=len(text)); document is
\* the position, in the batch's input list, of the text it summarizes (0
\* for a direct call).
SummaryResult(m, t, d) ==
  [class |-> "SummaryResult", summary_type |-> m, character_count |-> Len(t),
   document |-> d]

ConversationSummary == [class |-> "ConversationSummary"]
None == [class |-> "None"]
Raised == [class |-> "raised"]
Pending == [class |-> "pending"]

(***************************************************************************)
(* chat_with_gpt.py: ConversationManager.  An object is a record of its    *)
(* fields; a message is a record of its role and content.                  *)
(***************************************************************************)
DefaultMaxHistory == 10

\* The largest max_history a ConversationManager is constructed with.
MaxHistory == 3
\* The number of messages added to one ConversationManager.
MaxAdds == 5

Contents == {<<"h", "i">>, <<"y", "o">>}

SystemPrompt == <<"You are a helpful, knowledgeable assistant">>

SystemMessage(system_prompt) == [role |-> "system", content |-> system_prompt]

\* ConversationManager.__init__
ConversationManager(system_prompt, max_history) ==
  [messages |-> <<SystemMessage(system_prompt)>>,
   max_history |-> max_history,
   total_tokens |-> 0]

\* Faulty variant: the slice s[:n], the oldest messages.
SliceFirst(s, n) == IF n >= Len(s) THEN s ELSE SubSeq(s, 1, n)

\* The slice s[-n:].  -0 is 0, so s[-0:] is s[0:], the whole list; a count
\* beyond the length also yields the whole list.
SliceLast(s, n) ==
  IF n = 0 \/ n >= Len(s) THEN s ELSE SubSeq(s, Len(s) - n + 1, Len(s))

\* Faulty variant: the most recent max_history + 1 messages are kept,
\* whether or not the system message is among them.
trim_history_recent_only(c) ==
  IF Len(c.messages) > c.max_history + 1
  THEN [c EXCEPT !.messages = SliceLast(c.messages, c.max_history + 1)]
  ELSE c

\* ConversationManager._trim_history
trim_history(c) ==
  IF Len(c.messages) > c.max_history + 1
  THEN [c EXCEPT !.messages = <<c.messages[1]>> \o SliceLast(c.messages, c.max_history)]
  ELSE c

add_user_message(c, content) ==
  trim_history([c EXCEPT !.messages = Append(@, [role |-> "user", content |-> content])])

add_assistant_message(c, content) ==
  trim_history([c EXCEPT !.messages = Append(@, [role |-> "assistant", content |-> content])])

update_token_count(c, tokens) == [c EXCEPT !.total_tokens = @ + tokens]

VARIABLES
  method,              \* which summarization: extractive / abstractive / conversation
  text,                \* the text argument of a direct call
  sentence_count,      \* extractive_summarization's sentence_count
  summary_length,      \* abstractive_summarization's summary_length
  conversation_items,  \* conversation_summarization's items (their texts)
  pc,                  \* where the direct call is
  attempt,             \* the retry loop's variable
  resp,                \* the answer to the latest remote operation
  delay,               \* the delay of the sleep in progress (0: none)
  polls,               \* "running" answers to the status poll in this attempt
  ret,                 \* how the direct call ended, as its caller sees it
  started,             \* history: the attempt numbers at which the remote operation was started
  sleeps,              \* history: the sleeps made, [attempt, cause, delay]
  stats,               \* self.stats
  update_calls,        \* history: number of _update_stats calls
  documents,           \* batch_summarization's documents
  tpc,                 \* per document task: where it is
  tattempt,            \* per document task: its call's retry-loop variable
  outcome,             \* per document task: how its summarization call ended
  semaphore,           \* the value of asyncio.Semaphore(5)
  results,             \* the list asyncio.gather returned
  batch_ret,           \* what batch_summarization returned
  app,                 \* which program of the repository is running
  calls,               \* history: calls made on the object under study
  conversation,        \* the ConversationManager
  loop,                \* the interactive input loop of the running program
  chat,                \* InteractiveChatApp: config, streaming_mode; history: requests sent,
                       \* the messages of the last one and whether it failed
  translator,          \* TranslationApp and the locals of its interactive_mode
  analysis,            \* first_ai_project: the latest analyze_text call; text_analysis_sentiment:
                       \* the latest comprehensive_analysis call
  tester               \* setup_test: AzureAITester

callVars == <<text, conversation_items, pc, attempt, resp, delay, polls, ret, started, sleeps>>
batchVars == <<documents, tpc, tattempt, outcome, semaphore, results, batch_ret>>
appVars == <<app, calls, conversation, loop, chat, translator, analysis, tester>>
vars == <<method, sentence_count, summary_length, stats, update_calls, callVars, batchVars,
          appVars>>

inputVars == <<method, sentence_count, summary_length>>

(***************************************************************************)
(* The interactive input loops.  A line is a sequence of lexemes; " " is   *)
(* white space.  One iteration of a loop is one step: nothing else runs    *)
(* while a handler runs.                                                   *)
(***************************************************************************)
\* The number of input() calls of one loop.
MaxReads == 3

\* running: the loop has not ended; reads: input() calls made; got: the
\* latest input() returned a line; line: that line, stripped; exc: what the
\* latest iteration raised into the loop's try; reported: messages printed
\* by "except Exception".
NoLoop ==
  [running |-> TRUE, reads |-> 0, got |-> FALSE, line |-> <<>>, exc |-> "none",
   reported |-> 0]

\* user_input = input(...).strip()
ReadLine(l, raw) ==
  [l EXCEPT !.reads = @ + 1, !.got = TRUE, !.line = Strip(raw), !.exc = "none"]

\* input() raised: no line.
ReadNothing(l) == [l EXCEPT !.reads = @ + 1, !.got = FALSE, !.line = <<>>, !.exc = "none"]

\* Faulty variant: the interrupt is handled like any other exception.
LoopExceptReportAll(l, exc) ==
  IF exc = "none" THEN l
  ELSE [l EXCEPT !.reported = @ + 1, !.exc = exc]

\* The except clauses of the loop: "except KeyboardInterrupt" ends the loop,
\* "except Exception" prints the error and the loop goes on.
LoopExcept(l, exc) ==
  CASE exc = "KeyboardInterrupt" -> [l EXCEPT !.running = FALSE, !.exc = exc]
    [] exc = "Exception" -> [l EXCEPT !.reported = @ + 1, !.exc = exc]
    [] OTHER -> l

\* "break", or "self.running = False"
LoopBreak(l) == [l EXCEPT !.running = FALSE]

(***************************************************************************)
(* chat_with_gpt.py: InteractiveChatApp                                    *)
(***************************************************************************)
ChatConfiguration ==
  [temperature |-> "0.7", max_tokens |-> 1000, top_p |-> "0.95",
   system_prompt |-> SystemPrompt]

\* InteractiveChatApp.__init__
NewChat ==
  [config |-> ChatConfiguration, streaming_mode |-> TRUE, requests |-> 0,
   sent |-> <<>>, error |-> FALSE]

ChatLines ==
  {<<>>, <<" ">>, <<"h", "i">>, <<" ", "y", "o", " ">>, <<"h", "/", "quit">>,
   <<"/", "help">>, <<"/", "config">>, <<"/", "stream">>, <<"/", "clear">>,
   <<" ", "/", "clear">>, <<"/", "stats">>, <<"/", "quit">>, <<"/", "quit", " ">>,
   <<"/", "exit">>, <<"/", "quit", "!">>}

\* What the service does with a chat request: an error, or a completion with
\* content (possibly empty) and, usually, usage information.
ChatAnswers ==
  {[class |-> "error", content |-> <<>>, usage |-> FALSE, total_tokens |-> 0]}
  \cup {[class |-> "ok", content |-> c, usage |-> u, total_tokens |-> 7] :
          c \in {<<>>, <<"o", "k">>}, u \in BOOLEAN}

\* Faulty variant: only the known commands are treated as commands.
IsCommandKnownOnly(s) ==
  s \in {<<"/", c>> : c \in {"help", "config", "stream", "clear", "stats", "quit"}}

\* user_input.startswith('/')
IsCommand(s) == s # <<>> /\ s[1] = "/"

\* Faulty variant: '/clear' builds the whole application state anew.
CommandChatResetAll(ch, cmd) ==
  CASE cmd = <<"/", "stream">> -> [ch EXCEPT !.streaming_mode = ~@]
    [] cmd = <<"/", "clear">> -> [ch EXCEPT !.streaming_mode = TRUE]
    [] OTHER -> ch

\* The command branch of run, on the application's own fields.
CommandChat(ch, cmd) ==
  IF cmd = <<"/", "stream">> THEN [ch EXCEPT !.streaming_mode = ~@] ELSE ch

\* The command branch of run, on the conversation.
CommandConversation(c, ch, cmd) ==
  IF cmd = <<"/", "clear">>
  THEN ConversationManager(ch.config.system_prompt, DefaultMaxHistory)
  ELSE c

\* Whether the request ends in the handler's "except Exception".  A
\* non-streaming completion without usage makes chat_completion raise.
ChatError(streaming_mode, answer) ==
  answer.class = "error" \/ (~streaming_mode /\ ~answer.usage)

\* handle_streaming_response, after add_user_message and its print.
handle_streaming_response(c, answer) ==
  IF ChatError(TRUE, answer) THEN c
  ELSE LET c2 == IF answer.content # <<>>
                 THEN add_assistant_message(c, answer.content) ELSE c
       IN IF answer.usage THEN update_token_count(c2, answer.total_tokens) ELSE c2

\* Faulty variant: a failed request is answered with an apology.
handle_non_streaming_response_apology(c, answer) ==
  IF ChatError(FALSE, answer) THEN add_assistant_message(c, <<"s", "o", "r", "r", "y">>)
  ELSE update_token_count(add_assistant_message(c, answer.content), answer.total_tokens)

\* handle_non_streaming_response, after add_user_message and its print.
handle_non_streaming_response(c, answer) ==
  IF ChatError(FALSE, answer) THEN c
  ELSE update_token_count(add_assistant_message(c, answer.content), answer.total_tokens)

(***************************************************************************)
(* translate_text.py: AzureTranslator and TranslationApp                   *)
(***************************************************************************)
\* Direct calls made before the interactive mode starts (the demonstrations).
MaxDemoCalls == 2

ApiMethods == {"translate_text", "detect_language", "transliterate_text"}

\* What the service does with a request: "ok" is status 200 with a list of
\* results, "empty" status 200 with an empty list, "malformed" status 200
\* with JSON of another shape; "http_error" is an error status, on which
\* raise_for_status raises HTTPError; "network_error" is a failing
\* session.post (ConnectionError, Timeout).
TranslatorAnswers == {"ok", "empty", "malformed", "http_error", "network_error"}

\* requests.exceptions.RequestException and its subclasses
RequestException == {"http_error", "network_error"}

\* response.json()
Json(a) ==
  CASE a = "ok" -> <<"result">>
    [] a = "malformed" -> <<"garbage">>
    [] OTHER -> <<>>

\* Faulty variant: only connection failures are caught.
ApiMethodHttpUncaught(m, a) ==
  CASE a = "network_error" -> [raised |-> FALSE, value |-> <<>>]
    [] a = "http_error" -> [raised |-> TRUE, value |-> <<>>]
    [] OTHER -> [raised |-> FALSE, value |-> Json(a)]

\* translate_text, detect_language, transliterate_text: each posts, calls
\* raise_for_status and returns response.json() inside
\* "try ... except requests.exceptions.RequestException: print; return []".
ApiMethod(m, a) ==
  IF a \in RequestException
  THEN [raised |-> FALSE, value |-> <<>>]
  ELSE [raised |-> FALSE, value |-> Json(a)]

\* TranslationApp.__init__ and the locals of interactive_mode; history:
\* api_calls, detect_calls, translate_calls count the calls, last is the
\* latest call of an AzureTranslator method and what it gave its caller.
NewTranslator ==
  [translation_history |-> <<>>, target_lang |-> <<"es">>, detect_mode |-> FALSE,
   api_calls |-> 0, detect_calls |-> 0, translate_calls |-> 0, last |-> [method |-> "none", answer |-> "none", raised |-> FALSE, value |-> <<>>]]

\* A call of an AzureTranslator method
CallApi(tr, m, a) ==
  [tr EXCEPT !.api_calls = @ + 1,
             !.last = [method |-> m, answer |-> a,
                       raised |-> ApiMethod(m, a).raised,
                       value |-> ApiMethod(m, a).value]]

\* The latest handler raised: the method raised, or the results are not of
\* the shape the display code reads (results[0].get, score formatting).
HandlerRaised(tr) == tr.last.raised \/ tr.last.value = <<"garbage">>

detect_and_display_language(tr, a) ==
  [CallApi(tr, "detect_language", a) EXCEPT !.detect_calls = @ + 1]

translate_and_display(tr, original, target_languages, a) ==
  LET t == [CallApi(tr, "translate_text", a) EXCEPT !.translate_calls = @ + 1]
  IN IF ~t.last.raised /\ t.last.value = <<"result">>
     THEN [t EXCEPT !.translation_history =
                      Append(@, [original |-> original, target_lang |-> target_languages])]
     ELSE t

\* str.lower()
Lower(s) ==
  [i \in DOMAIN s |->
     CASE s[i] = "QUIT" -> "quit"
       [] s[i] = "Detect" -> "detect"
       [] s[i] = "LANG:" -> "lang:"
       [] OTHER -> s[i]]

\* user_input.startswith('lang:')
StartsWithLang(s) == s # <<>> /\ s[1] = "lang:"

TranslatorLines ==
  {<<>>, <<"quit">>, <<" ", "QUIT">>, <<"history">>, <<"detect">>, <<"Detect">>,
   <<"lang:", "fr">>, <<"lang:", " ", "de">>, <<"LANG:", "fr">>,
   <<"h", "i">>, <<" ", "y", "o">>}

\* The text branch of interactive_mode: "detect_mode = False" comes after the
\* detection and is not reached when the detection raises.
TranslateOrDetect(tr, user_input, a) ==
  IF tr.detect_mode
  THEN LET d == detect_and_display_language(tr, a)
       IN IF HandlerRaised(d) THEN d ELSE [d EXCEPT !.detect_mode = FALSE]
  ELSE translate_and_display(tr, user_input, tr.target_lang, a)


(***************************************************************************)
(* first_ai_project.py: analyze_text                                       *)
(***************************************************************************)
TextLimit == 5000

\* Text lengths tried: from LimitMargin below TextLimit to LimitMargin above.
LimitMargin == 1

\* The texts of this program are long, so a text is kept as its runs: a
\* sequence of [c, n], n >= 1 times the character c, neighbouring runs of
\* different characters.
Run(c, n) == [c |-> c, n |-> n]

\* The text of the characters of s, no two neighbours equal.
Str(s) == [i \in DOMAIN s |-> Run(s[i], 1)]

\* len(t)
RECURSIVE TextLen(_)
TextLen(t) == IF t = <<>> THEN 0 ELSE Head(t).n + TextLen(Tail(t))

\* t[:k]
RECURSIVE Prefix(_, _)
Prefix(t, k) ==
  IF t = <<>> \/ k <= 0 THEN <<>>
  ELSE IF Head(t).n <= k THEN <<Head(t)>> \o Prefix(Tail(t), k - Head(t).n)
  ELSE <<Run(Head(t).c, k)>>

\* t[-k:]
RECURSIVE Suffix(_, _)
Suffix(t, k) ==
  IF t = <<>> \/ k <= 0 THEN <<>>
  ELSE IF t[Len(t)].n <= k
       THEN Suffix(SubSeq(t, 1, Len(t) - 1), k - t[Len(t)].n) \o <<t[Len(t)]>>
  ELSE <<Run(t[Len(t)].c, k)>>

\* t.strip()
RECURSIVE StripRuns(_)
StripRuns(t) ==
  IF t = <<>> THEN t
  ELSE IF Head(t).c = " " THEN StripRuns(Tail(t))
  ELSE IF t[Len(t)].c = " " THEN StripRuns(SubSeq(t, 1, Len(t) - 1))
  ELSE t

\* t.lower()
LowerRuns(t) ==
  [i \in DOMAIN t |->
     Run(CASE t[i].c = "E" -> "e" [] t[i].c = "X" -> "x" [] t[i].c = "I" -> "i"
           [] t[i].c = "T" -> "t" [] t[i].c = "Q" -> "q" [] OTHER -> t[i].c,
         t[i].n)]

ShortTexts == {<<>>, <<Run(" ", 2)>>, Str(<<"h", "i">>), Str(<<" ", "h", "i", " ">>)}

\* The texts analyze_text is called with; among them long texts of "a"
\* with one "b", at the front or at the end, and long runs of spaces, alone
\* and in front of a text.
AnalyzerTexts ==
  ShortTexts
  \cup UNION {{<<Run("b", 1), Run("a", n - 1)>>, <<Run("a", n - 1), Run("b", 1)>>} :
                n \in (TextLimit - LimitMargin)..(TextLimit + LimitMargin)}
  \cup {<<Run(" ", TextLimit + 1)>>, <<Run(" ", TextLimit), Run("a", 1)>>}

\* The lines typed in interactive_mode.
AnalyzerLines ==
  ShortTexts
  \cup {<<Run("b", 1), Run("a", TextLimit)>>, <<Run(" ", 1), Run("a", TextLimit + 1)>>}
  \cup {Str(<<"q", "u", "i", "t">>), Str(<<"E", "X", "I", "T">>), Str(<<" ", "q">>),
        Str(<<"q", "u", "i", "t", "e">>)}

ExitWords == {Str(<<"q", "u", "i", "t">>), Str(<<"e", "x", "i", "t">>), Str(<<"q">>)}

Steps == <<"detect_language", "analyze_sentiment", "extract_key_phrases">>

\* The answers to the three steps: all "ok", or one of them fails, with an
\* HttpResponseError of status 429, 401 or 500 or with another exception.
AnswerLists ==
  {[i \in 1..3 |-> IF i = k THEN f ELSE "ok"] :
     k \in 0..3, f \in {"ok", "429", "401", "500", "exception"}}

\* Faulty variant: the last 5000 characters are kept.
TruncateKeepEnd(t) == IF TextLen(t) > TextLimit THEN Suffix(t, TextLimit) ELSE t

\* "if len(text) > 5000: text = text[:5000]"
Truncate(t) == IF TextLen(t) > TextLimit THEN Prefix(t, TextLimit) ELSE t

\* Faulty variant: a call answered 429 is made once more.
RECURSIVE CallsFromRetry(_, _)
CallsFromRetry(i, answers) ==
  IF i > Len(Steps) THEN <<>>
  ELSE <<[step |-> Steps[i], answer |-> answers[i]]>>
       \o (CASE answers[i] = "ok" -> CallsFromRetry(i + 1, answers)
             [] answers[i] = "429" -> <<[step |-> Steps[i], answer |-> answers[i]]>>
             [] OTHER -> <<>>)

\* The calls made inside the try, from step i on: the steps in order, up to
\* the first one that raises.
RECURSIVE CallsFrom(_, _)
CallsFrom(i, answers) ==
  IF i > Len(Steps) THEN <<>>
  ELSE <<[step |-> Steps[i], answer |-> answers[i]]>>
       \o (IF answers[i] = "ok" THEN CallsFrom(i + 1, answers) ELSE <<>>)

\* The message the except clauses print.
ErrorMessage(a) ==
  CASE a = "ok" -> "none"
    [] a = "429" -> "Rate limit exceeded"
    [] a = "401" -> "Authentication failed"
    [] a = "500" -> "API Error"
    [] OTHER -> "Unexpected error"

\* Faulty variant: without the final "except Exception".
analyze_text_http_only(t, answers) ==
  IF t = <<>> \/ StripRuns(t) = <<>>
  THEN [text |-> t, sent |-> <<>>, calls |-> <<>>, printed |-> "Empty text provided",
        raised |-> FALSE]
  ELSE LET made == CallsFrom(1, answers) IN
       [text |-> t, sent |-> Truncate(t), calls |-> made,
        printed |-> IF made[Len(made)].answer = "exception" THEN "none"
                    ELSE ErrorMessage(made[Len(made)].answer),
        raised |-> made[Len(made)].answer = "exception"]

\* analyze_text(client, text): text is the argument, sent the document of
\* its service calls, calls the calls made with their answers, printed the
\* warning or error message, raised whether an exception reached the caller.
analyze_text(t, answers) ==
  IF t = <<>> \/ StripRuns(t) = <<>>
  THEN [text |-> t, sent |-> <<>>, calls |-> <<>>, printed |-> "Empty text provided",
        raised |-> FALSE]
  ELSE LET made == CallsFrom(1, answers) IN
       [text |-> t, sent |-> Truncate(t), calls |-> made,
        printed |-> ErrorMessage(made[Len(made)].answer),
        raised |-> FALSE]

\* No analyze_text call yet; n counts the calls (history).
NewAnalysis ==
  [n |-> 0, text |-> <<>>, sent |-> <<>>, calls |-> <<>>, printed |-> "none",
   raised |-> FALSE]

\* The result of one more analyze_text call.
Analyzed(an, result) ==
  [n |-> an.n + 1, text |-> result.text, sent |-> result.sent, calls |-> result.calls,
   printed |-> result.printed, raised |-> result.raised]


(***************************************************************************)
(* text_analysis_sentiment.py: AzureTextAnalyzer                           *)
(***************************************************************************)
\* The four methods in the order comprehensive_analysis calls them.
TextAnalyzerMethods ==
  <<"detect_language", "analyze_sentiment", "extract_key_phrases", "recognize_entities">>

\* What a method returns for a list of one text: one entry for the document
\* (an error entry when the service reports an error for the document), or
\* the empty list of "except HttpResponseError: print(...); return []".
MethodReturn(m, a) ==
  IF a = "http_error" THEN <<>>
  ELSE <<[method |-> m, document_error |-> (a = "document_error")]>>

\* comprehensive_analysis(text): each method's result is indexed with [0]
\* before the next method is called; [0] of an empty list raises IndexError.
comprehensive_analysis(t, answers) ==
  LET returned == [i \in 1..4 |-> MethodReturn(TextAnalyzerMethods[i], answers[i])]
      empty == {i \in 1..4 : returned[i] = <<>>}
      last == IF empty = {} THEN 4 ELSE CHOOSE i \in empty : \A j \in empty : i <= j
  IN [text |-> t,
      calls |-> [i \in 1..last |-> [step |-> TextAnalyzerMethods[i], answer |-> answers[i]]],
      raised |-> empty # {},
      result |-> IF empty # {} THEN [class |-> "IndexError"]
                 ELSE [class |-> "TextAnalysisResult", original_text |-> t,
                       language |-> IF returned[1][1].document_error THEN "unknown" ELSE "en",
                       sentiment |-> IF returned[2][1].document_error THEN "error"
                                     ELSE "positive"]]

(***************************************************************************)
(* setup_test.py: AzureAITester                                            *)
(***************************************************************************)
ServiceNames == <<"Language Service", "Computer Vision", "Azure OpenAI">>

\* Faulty variant: the key is not looked at.
ConfiguredEndpointOnly(endpoint, key) == endpoint \notin {"None", ""}

\* "bool(self.language_endpoint and self.language_key)"
Configured(endpoint, key) == endpoint \notin {"None", ""} /\ key \notin {"None", ""}

\* load_credentials: self.services_configured
services_configured(credentials) ==
  [s \in DOMAIN credentials |-> Configured(credentials[s].endpoint, credentials[s].key)]

\* The service calls of a test in order, each with its answer ("ok", or
\* "error" for an exception), up to the first that raises; answers[i] = "skip"
\* is a call the test does not make.  tolerated: calls whose exception the
\* test catches itself and goes on.
RECURSIVE TestCalls(_, _, _, _)
TestCalls(names, answers, tolerated, i) ==
  IF i > Len(names) THEN <<>>
  ELSE <<[call |-> names[i], answer |-> answers[i]]>>
       \o (IF answers[i] = "error" /\ names[i] \notin tolerated THEN <<>>
           ELSE TestCalls(names, answers, tolerated, i + 1))

\* The outcome of a test method: "skipped" without any call when the service
\* is not configured; otherwise its calls, and "error" when an exception
\* reached its "except Exception", "success" when none did.  compiles is
\* whether building the results dictionary works.
TestMethod(configured, names, answers, tolerated, compiles) ==
  IF ~configured THEN [status |-> "skipped", calls |-> <<>>, raised |-> FALSE]
  ELSE LET made == TestCalls(names, answers, tolerated, 1)
           failed == \E i \in DOMAIN made :
                       made[i].answer = "error" /\ made[i].call \notin tolerated
       IN [status |-> IF failed \/ ~compiles THEN "error" ELSE "success",
           calls |-> made, raised |-> FALSE]

\* test_language_service.  Building the results reads doc.text of the test
\* documents, which are plain strings, so it raises AttributeError.
test_language_service(configured, answers) ==
  TestMethod(configured, <<"analyze_sentiment", "extract_key_phrases", "detect_language">>,
             answers, {}, FALSE)

\* The answers of get_read_result that the wait loop of test_computer_vision
\* looks at, statuses being what the service would answer poll after poll:
\* "while True: ...; if read_result.status not in [running]: break".
\* "error" is a call that raises.
RECURSIVE WaitForRead(_)
WaitForRead(statuses) ==
  IF statuses = <<>> THEN <<>>
  ELSE IF Head(statuses) \notin {"running"} THEN <<Head(statuses)>>
  ELSE <<Head(statuses)>> \o WaitForRead(Tail(statuses))

\* test_computer_vision: analyze_image, read, then the wait loop.  The text
\* is extracted only "if read_result.status == succeeded"; the result is a
\* success whatever the last status was.
test_computer_vision(configured, answers, statuses) ==
  LET polled == WaitForRead(statuses) IN
  TestMethod(configured,
             <<"analyze_image", "read">> \o [i \in DOMAIN polled |-> "get_read_result"],
             answers \o polled, {}, TRUE)

\* test_azure_openai: the embeddings call has its own "except Exception".
test_azure_openai(configured, answers) ==
  TestMethod(configured, <<"chat.completions.create", "embeddings.create">>,
             answers, {"embeddings.create"}, TRUE)

\* AzureAITester.__init__ before load_credentials has read the environment:
\* no test has run.
\* calls (history): the service calls made, with the service's name.
NewTester ==
  [credentials |-> [s \in 1..3 |-> [endpoint |-> "None", key |-> "None"]],
   test_results |-> <<>>, calls |-> <<>>, summary |-> <<>>, saved |-> FALSE]

\* self.test_results[service_name] = test_func()
Tested(te, s, result) ==
  [te EXCEPT !.test_results = Append(@, [service |-> ServiceNames[s],
                                        status |-> result.status,
                                        raised |-> result.raised]),
             !.calls = @ \o [i \in DOMAIN result.calls |->
                               [service |-> ServiceNames[s],
                                call |-> result.calls[i].call,
                                answer |-> result.calls[i].answer]]]

\* Faulty variant: the skipped tests are left out.
display_summary_configured(te) ==
  [te EXCEPT !.summary = SelectSeq([i \in DOMAIN te.test_results |->
                                      [service |-> te.test_results[i].service,
                                       status |-> te.test_results[i].status]],
                                   LAMBDA e : e.status # "skipped"),
             !.saved = TRUE]

\* display_summary, then save_results: one line per entry of test_results,
\* and the file written (or the failure to write it printed).
display_summary(te) ==
  [te EXCEPT !.summary = [i \in DOMAIN te.test_results |->
                            [service |-> te.test_results[i].service,
                             status |-> te.test_results[i].status]],
             !.saved = TRUE]


\* A program as constructed, before it runs.
NoPrograms ==
  /\ calls = 0
  /\ conversation = ConversationManager(SystemPrompt, DefaultMaxHistory)
  /\ loop = NoLoop
  /\ chat = NewChat
  /\ translator = NewTranslator
  /\ analysis = NewAnalysis
  /\ tester = NewTester

(***************************************************************************)
(* A direct call                                                           *)
(***************************************************************************)
NoBatch ==
  /\ documents = <<>>
  /\ tpc = <<>>
  /\ tattempt = <<>>
  /\ outcome = <<>>
  /\ semaphore = SemaphoreSlots
  /\ results = <<>>
  /\ batch_ret = Pending

InitCall ==
  /\ method \in {"extractive", "abstractive", "conversation"}
  /\ text \in (IF method = "conversation" THEN {<<>>} ELSE Texts)
  /\ sentence_count \in (IF method = "extractive" THEN SentenceCounts ELSE {3})
  /\ summary_length \in (IF method = "abstractive" THEN SummaryLengths ELSE {"medium"})
  /\ conversation_items \in (IF method = "conversation" THEN ItemLists ELSE {<<>>})
  /\ pc = "start"
  /\ attempt = 0
  /\ resp = "none"
  /\ delay = 0
  /\ polls = 0
  /\ ret = Pending
  /\ started = <<>>
  /\ sleeps = <<>>
  /\ stats = NoStats
  /\ update_calls = 0
  /\ NoBatch
  /\ app = "summarizer"
  /\ NoPrograms

\* len(text), or the characters of all conversation items.
CharacterCount ==
  IF method = "conversation" THEN SumLen(conversation_items) ELSE Len(text)

\* The outer "except Exception": count a failed request and re-raise.
RaiseToCaller ==
  /\ stats' = update_stats(stats, CharacterCount, FALSE)
  /\ update_calls' = update_calls + 1
  /\ ret' = Raised
  /\ pc' = "done"

\* The success path: count a successful request and return the result.
ReturnResult ==
  /\ stats' = update_stats(stats, CharacterCount, TRUE)
  /\ update_calls' = update_calls + 1
  /\ ret' = IF method = "conversation" THEN ConversationSummary
            ELSE SummaryResult(method, text, 0)
  /\ pc' = "done"

\* The function body ends without a return statement.
FallThrough ==
  /\ ret' = None
  /\ pc' = "done"
  /\ UNCHANGED <<stats, update_calls>>

\* What the except clauses (or the success path) do with an answer of class cls.
Dispatch(cls) ==
  LET o == OnResponse(cls, attempt) IN
    CASE o.next = "sleep" ->
           /\ pc' = "sleeping"
           /\ delay' = o.delay
           /\ sleeps' = Append(sleeps, [attempt |-> attempt, cause |-> resp, delay |-> o.delay])
           /\ UNCHANGED <<stats, update_calls, ret>>
      [] o.next = "raise" ->
           /\ RaiseToCaller
           /\ UNCHANGED <<delay, sleeps>>
      [] o.next = "break" ->
           /\ FallThrough
           /\ UNCHANGED <<delay, sleeps>>
      [] OTHER ->
           /\ ReturnResult
           /\ UNCHANGED <<delay, sleeps>>

\* Entry of the method: input validation inside the outer try.
Validate ==
  /\ pc = "start"
  /\ IF InputError(method, text, sentence_count, summary_length, conversation_items)
       THEN RaiseToCaller
       ELSE /\ pc' = "attempt"
            /\ UNCHANGED <<stats, update_calls, ret>>
  /\ UNCHANGED <<attempt, resp, delay, polls, started, sleeps, inputVars, appVars, text, conversation_items, batchVars>>

\* One loop iteration starts the remote operation: begin_analyze_actions and
\* poller.result(), or the job-submission POST.
StartOperation ==
  /\ pc = "attempt"
  /\ resp' \in (IF method = "conversation" THEN PostResponses ELSE AnalyzeResponses)
  /\ started' = Append(started, attempt)
  /\ polls' = 0
  /\ pc' = "called"
  /\ UNCHANGED <<attempt, delay, ret, sleeps, stats, update_calls, inputVars, appVars, text, conversation_items, batchVars>>

\* The rest of the iteration, up to the next await or the end of the call.
HandleResponse ==
  /\ pc = "called"
  /\ IF Classify(resp) = "accepted"
       THEN /\ pc' = "poll"
            /\ UNCHANGED <<delay, sleeps, stats, update_calls, ret>>
       ELSE Dispatch(Classify(resp))
  /\ UNCHANGED <<attempt, resp, polls, started, inputVars, appVars, text, conversation_items, batchVars>>

\* conversation_summarization: one GET of the job status.
PollStatus ==
  /\ pc = "poll"
  /\ resp' \in {r \in PollResponses : r = "running" => polls < MaxPolls}
  /\ pc' = "polled"
  /\ UNCHANGED <<attempt, delay, polls, ret, started, sleeps, stats, update_calls,
                 inputVars, appVars, text, conversation_items, batchVars>>

\* conversation_summarization: the body of the polling loop after the GET.
HandlePoll ==
  /\ pc = "polled"
  /\ IF Classify(resp) = "running"
       THEN /\ pc' = "poll_wait"
            /\ delay' = PollInterval
            /\ polls' = polls + 1
            /\ UNCHANGED <<sleeps, stats, update_calls, ret>>
       ELSE /\ Dispatch(Classify(resp))
            /\ UNCHANGED polls
  /\ UNCHANGED <<attempt, resp, started, inputVars, appVars, text, conversation_items, batchVars>>

\* "await asyncio.sleep(2)" of the polling loop is over.
PollAgain ==
  /\ pc = "poll_wait"
  /\ pc' = "poll"
  /\ delay' = 0
  /\ UNCHANGED <<attempt, resp, polls, ret, started, sleeps, stats, update_calls,
                 inputVars, appVars, text, conversation_items, batchVars>>

\* The sleep of an except clause is over: the for loop goes to its next
\* iteration, or is exhausted and the method body ends.
WakeUp ==
  /\ pc = "sleeping"
  /\ delay' = 0
  /\ IF LoopContinues(attempt)
       THEN /\ attempt' = attempt + 1
            /\ pc' = "attempt"
            /\ UNCHANGED <<ret, stats, update_calls>>
       ELSE /\ FallThrough
            /\ UNCHANGED attempt
  /\ UNCHANGED <<resp, polls, started, sleeps, inputVars, appVars, text, conversation_items, batchVars>>

NextCall ==
  \/ Validate
  \/ StartOperation
  \/ HandleResponse
  \/ PollStatus
  \/ HandlePoll
  \/ PollAgain
  \/ WakeUp

SpecCall == InitCall /\ [][NextCall]_vars

\* conversation_summarization: one more round of the polling loop, with the
\* job still running, once MaxPolls rounds have been counted (polls then
\* stands for "MaxPolls or more"): the GET, the status test and the start of
\* "await asyncio.sleep(2)".  The loop "while True" has no other exit than
\* the statuses succeeded and failed and an exception.
KeepPolling ==
  /\ pc = "poll"
  /\ polls = MaxPolls
  /\ resp' = "running"
  /\ pc' = "poll_wait"
  /\ delay' = PollInterval
  /\ UNCHANGED <<attempt, polls, ret, started, sleeps, stats, update_calls,
                 inputVars, appVars, text, conversation_items, batchVars>>

\* A direct call in which every step that can be taken is eventually taken:
\* every request is answered, every sleep ends.
SpecCallLive ==
  InitCall /\ [][NextCall \/ KeepPolling]_vars /\ WF_vars(NextCall \/ KeepPolling)


(***************************************************************************)
(* batch_summarization                                                     *)
(*                                                                         *)
(* asyncio runs one task at a time and switches only at an await that      *)
(* suspends: the semaphore's acquire when no slot is free, and the sleeps  *)
(* of the retry loop (begin_analyze_actions and poller.result() block the  *)
(* event loop).  Each action below is one such uninterrupted run of a      *)
(* document task.  gather() schedules the tasks in document order, so each *)
(* task makes its first run, in that order, before any task is resumed;    *)
(* the semaphore wakes its waiters first come, first served; the order in  *)
(* which sleeping tasks are resumed is left open.                          *)
(***************************************************************************)
DefaultSentenceCount == 3
BatchTexts == {<<"a">>, <<" ">>}
\* The document lists tried: MaxDocs documents, of which the first and the
\* last may be whitespace-only.
BatchDocuments ==
  {d \in [1..MaxDocs -> BatchTexts] : \A i \in 2..(MaxDocs - 1) : d[i] = <<"a">>}
BatchSentenceCounts == {DefaultSentenceCount, MaxSentenceCount + 1}
BatchSummaryLengths == {"medium", "tiny"}

NoCall ==
  /\ text = <<>>
  /\ conversation_items = <<>>
  /\ pc = "idle"
  /\ attempt = 0
  /\ resp = "none"
  /\ delay = 0
  /\ polls = 0
  /\ ret = Pending
  /\ started = <<>>
  /\ sleeps = <<>>

InitBatch ==
  /\ method \in {"extractive", "abstractive"}
  /\ sentence_count \in (IF method = "extractive" THEN BatchSentenceCounts
                         ELSE {DefaultSentenceCount})
  /\ summary_length \in (IF method = "abstractive" THEN BatchSummaryLengths
                         ELSE {"medium"})
  /\ documents \in BatchDocuments
  /\ tpc = [t \in 1..MaxDocs |-> "new"]
  /\ tattempt = [t \in 1..MaxDocs |-> 0]
  /\ outcome = [t \in 1..MaxDocs |-> Pending]
  /\ semaphore = SemaphoreSlots
  /\ results = <<>>
  /\ batch_ret = Pending
  /\ stats = NoStats
  /\ update_calls = 0
  /\ NoCall
  /\ app = "summarizer"
  /\ NoPrograms

Tasks == DOMAIN documents

\* Faulty variant: a semaphore that hands out a slot it does not have.
SlotFreeAlways(value) == value >= 0

\* Semaphore.acquire() goes through without suspending.
SlotFree(value) == value > 0

\* One iteration of the summarization call's retry loop inside task t, run
\* to the next suspension or to the end of the task.  held is the
\* semaphore's value while the task holds its slot.
RunAttempt(t, held, k, cls) ==
  LET o == OnResponse(cls, k) IN
    CASE o.next = "sleep" ->
           /\ tpc' = [tpc EXCEPT ![t] = "sleeping"]
           /\ tattempt' = [tattempt EXCEPT ![t] = k]
           /\ semaphore' = held
           /\ UNCHANGED <<outcome, stats, update_calls>>
      [] o.next = "raise" ->
           /\ tpc' = [tpc EXCEPT ![t] = "done"]
           /\ tattempt' = [tattempt EXCEPT ![t] = 0]
           /\ outcome' = [outcome EXCEPT ![t] = Raised]
           /\ stats' = update_stats(stats, Len(documents[t]), FALSE)
           /\ update_calls' = update_calls + 1
           /\ semaphore' = held + 1
      [] o.next = "break" ->
           /\ tpc' = [tpc EXCEPT ![t] = "done"]
           /\ tattempt' = [tattempt EXCEPT ![t] = 0]
           /\ outcome' = [outcome EXCEPT ![t] = None]
           /\ semaphore' = held + 1
           /\ UNCHANGED <<stats, update_calls>>
      [] OTHER ->
           /\ tpc' = [tpc EXCEPT ![t] = "done"]
           /\ tattempt' = [tattempt EXCEPT ![t] = 0]
           /\ outcome' = [outcome EXCEPT ![t] = SummaryResult(method, documents[t], t)]
           /\ stats' = update_stats(stats, Len(documents[t]), TRUE)
           /\ update_calls' = update_calls + 1
           /\ semaphore' = held + 1

\* Task t has its slot (held is the value left) and enters the
\* summarization call: validation, then the first attempt.
EnterCall(t, held) ==
  IF InputError(method, documents[t], sentence_count, summary_length, <<>>)
    THEN /\ tpc' = [tpc EXCEPT ![t] = "done"]
         /\ outcome' = [outcome EXCEPT ![t] = Raised]
         /\ stats' = update_stats(stats, Len(documents[t]), FALSE)
         /\ update_calls' = update_calls + 1
         /\ semaphore' = held + 1
         /\ UNCHANGED tattempt
    ELSE \E cls \in AnalyzeClasses : RunAttempt(t, held, 0, cls)

\* The first run of process_document(documents[t]): "async with semaphore".
TaskStart(t) ==
  /\ tpc[t] = "new"
  /\ \A u \in Tasks : u < t => tpc[u] # "new"
  /\ IF SlotFree(semaphore)
       THEN EnterCall(t, semaphore - 1)
       ELSE /\ tpc' = [tpc EXCEPT ![t] = "waiting"]
            /\ UNCHANGED <<tattempt, outcome, semaphore, stats, update_calls>>
  /\ UNCHANGED <<documents, results, batch_ret, inputVars, appVars, callVars>>

\* A released slot resumes the longest-waiting task.
TaskAcquire(t) ==
  /\ tpc[t] = "waiting"
  /\ \A u \in Tasks : tpc[u] # "new" /\ (u < t => tpc[u] # "waiting")
  /\ SlotFree(semaphore)
  /\ EnterCall(t, semaphore - 1)
  /\ UNCHANGED <<documents, results, batch_ret, inputVars, appVars, callVars>>

\* The sleep of task t's retry loop is over: next iteration, or the loop is
\* exhausted and the summarization call returns nothing.
TaskWake(t) ==
  /\ tpc[t] = "sleeping"
  /\ \A u \in Tasks : tpc[u] # "new"
  /\ IF LoopContinues(tattempt[t])
       THEN \E cls \in AnalyzeClasses : RunAttempt(t, semaphore, tattempt[t] + 1, cls)
       ELSE /\ tpc' = [tpc EXCEPT ![t] = "done"]
            /\ tattempt' = [tattempt EXCEPT ![t] = 0]
            /\ outcome' = [outcome EXCEPT ![t] = None]
            /\ semaphore' = semaphore + 1
            /\ UNCHANGED <<stats, update_calls>>
  /\ UNCHANGED <<documents, results, batch_ret, inputVars, appVars, callVars>>

\* Faulty variant: process_document without its except clause.
ProcessDocumentNoCatch(o) == o

\* process_document's "return await ..." / "except Exception: return None".
ProcessDocumentReturn(o) == IF o.class = "raised" THEN None ELSE o

\* Faulty variant: a filter that keeps every entry.
SuccessfulResultsUnfiltered(rs) == rs

\* [r for r in results if isinstance(r, SummaryResult)]
SuccessfulResults(rs) == SelectSeq(rs, LAMBDA r : r.class = "SummaryResult")

\* asyncio.gather returns once every task is done, results in task order;
\* batch_summarization filters them and returns.
Gather ==
  /\ batch_ret = Pending
  /\ \A t \in Tasks : tpc[t] = "done"
  /\ results' = [t \in Tasks |-> ProcessDocumentReturn(outcome[t])]
  /\ batch_ret' = [class |-> "list", items |-> SuccessfulResults(results')]
  /\ UNCHANGED <<documents, tpc, tattempt, outcome, semaphore, stats, update_calls,
                 inputVars, appVars, callVars>>

NextBatch ==
  \/ \E t \in Tasks : TaskStart(t)
  \/ \E t \in Tasks : TaskAcquire(t)
  \/ \E t \in Tasks : TaskWake(t)
  \/ Gather

SpecBatch == InitBatch /\ [][NextBatch]_vars

(***************************************************************************)
(* Properties of a direct call (SpecCall)                                  *)
(***************************************************************************)
TextCall == method \in {"extractive", "abstractive"}
OnlyWhitespace(t) == \A i \in 1..Len(t) : t[i] = " "
GenericErrors == {"doc_error", "exception", "no_location", "failed", "bad_payload"}
\* The i-th sleep has ended.
SleepOver(i) == i < Len(sleeps) \/ pc # "sleeping"
\* Attempt k has been entered: the loop is at the head of iteration k or
\* has started the remote operation of iteration k.
AttemptMade(k) ==
  \/ pc = "attempt" /\ attempt = k
  \/ \E j \in 1..Len(started) : started[j] = k

\* C1: a single call of any of the three summarization methods starts the
\* remote operation (begin_analyze_actions or the job POST) at most
\* max_retries = 3 times, whatever the service answers.
C1_AtMostMaxRetriesStarts == Len(started) <= 3

C1_Witness ==
  /\ pc = "done"
  /\ Len(started) = 3
  /\ \E i \in 1..Len(sleeps) : sleeps[i].cause = "http429"
  /\ \E i \in 1..Len(sleeps) : sleeps[i].cause = "exception"

\* C2: a call of extractive_summarization or abstractive_summarization with
\* valid input ends by returning a SummaryResult or by raising, never by
\* returning nothing; stated here for the case the claim names, every one of
\* the max_retries attempts answered with HTTP 429.
C2_RateLimitedCallReturnsOrRaises ==
  ( /\ TextCall
    /\ pc = "done"
    /\ ~InputError(method, text, sentence_count, summary_length, conversation_items)
    /\ Len(sleeps) = 3
    /\ \A i \in 1..Len(sleeps) : sleeps[i].cause = "http429" )
  => ret.class \in {"SummaryResult", "raised"}

\* C3: in extractive / abstractive summarization, attempt k answered with
\* HTTP 429 sleeps rate_limit_delay * 2^k seconds (2, 4, 8); once that sleep
\* is over and k < max_retries - 1, attempt k + 1 is made; the delays of
\* successive rate-limited attempts strictly increase.
C3_RateLimitBackoff ==
  TextCall =>
    /\ \A i \in 1..Len(sleeps) :
         sleeps[i].cause = "http429" =>
           /\ sleeps[i].delay = 2 * (2 ^ sleeps[i].attempt)
           /\ sleeps[i].delay \in {2, 4, 8}
           /\ (sleeps[i].attempt < 3 - 1 /\ SleepOver(i))
                => AttemptMade(sleeps[i].attempt + 1)
    /\ \A i, j \in 1..Len(sleeps) :
         (i < j /\ sleeps[i].cause = "http429" /\ sleeps[j].cause = "http429")
           => sleeps[i].delay < sleeps[j].delay
    /\ (pc = "sleeping" /\ resp = "http429") =>
         delay = sleeps[Len(sleeps)].delay

C3_Witness ==
  /\ TextCall
  /\ Len(sleeps) = 3
  /\ \A i \in 1..3 : sleeps[i].cause = "http429" /\ sleeps[i].delay = 2 * (2 ^ (i - 1))
  /\ pc = "done"

\* C4: in extractive / abstractive summarization an HTTP error whose status
\* is not 429, on any attempt, is re-raised at once: the call is over, no
\* sleep was made for that attempt, no further attempt was started, and the
\* statistics hold exactly one request, a failed one.
C4_HttpErrorRaisedAtOnce ==
  (TextCall /\ resp = "http_error" /\ pc # "called") =>
    /\ pc = "done"
    /\ ret = Raised
    /\ delay = 0
    /\ Len(started) = attempt + 1
    /\ \A i \in 1..Len(sleeps) : sleeps[i].attempt < attempt
    /\ stats.total_requests = 1
    /\ stats.failed_requests = 1
    /\ stats.successful_requests = 0

C4_Witness ==
  /\ TextCall
  /\ resp = "http_error"
  /\ pc = "done"
  /\ attempt = 2

\* C5: in extractive / abstractive summarization an error that is not an
\* HTTP response error (a per-document analysis error included) on attempt
\* k < max_retries - 1 sleeps retry_delay * 2^k seconds and is followed by
\* attempt k + 1; on the last attempt it is re-raised without a sleep.
C5_OtherErrorRetriedThenRaised ==
  TextCall =>
    /\ \A i \in 1..Len(sleeps) :
         sleeps[i].cause \in GenericErrors =>
           /\ sleeps[i].attempt < 3 - 1
           /\ sleeps[i].delay = 1 * (2 ^ sleeps[i].attempt)
           /\ SleepOver(i) => AttemptMade(sleeps[i].attempt + 1)
    /\ (resp \in GenericErrors /\ pc # "called") =>
         \/ /\ pc = "sleeping"
            /\ attempt < 3 - 1
            /\ delay = 1 * (2 ^ attempt)
            /\ sleeps # <<>>
            /\ sleeps[Len(sleeps)] =
                 [attempt |-> attempt, cause |-> resp, delay |-> delay]
         \/ /\ pc = "attempt"
            /\ attempt >= 1
            /\ sleeps # <<>>
            /\ sleeps[Len(sleeps)] =
                 [attempt |-> attempt - 1, cause |-> resp, delay |-> 2 ^ (attempt - 1)]
         \/ /\ pc = "done"
            /\ attempt = 3 - 1
            /\ ret = Raised
            /\ delay = 0
            /\ \A i \in 1..Len(sleeps) : sleeps[i].attempt < attempt

C5_Witness ==
  /\ TextCall
  /\ pc = "done"
  /\ ret = Raised
  /\ attempt = 2
  /\ resp = "doc_error"
  /\ Len(sleeps) = 2
  /\ sleeps[1] = [attempt |-> 0, cause |-> "exception", delay |-> 1]
  /\ sleeps[2] = [attempt |-> 1, cause |-> "doc_error", delay |-> 2]

\* C6: extractive / abstractive summarization called with an empty or
\* whitespace-only text raises to the caller and has made no service call.
C6_EmptyTextRaisesWithoutCall ==
  (TextCall /\ OnlyWhitespace(text)) =>
    /\ started = <<>>
    /\ pc \in {"start", "done"}
    /\ pc = "done" => ret = Raised

C6_Witness ==
  /\ TextCall
  /\ text = <<" ", " ">>
  /\ pc = "done"
  /\ ret = Raised

\* C7: extractive_summarization with a text that passes the text check: a
\* sentence_count below 1 or above 20 raises without a service call; every
\* sentence_count from 1 to 20 passes validation, so the call goes on to the
\* service call and never ends without having made one.
C7_SentenceCountRange ==
  (method = "extractive" /\ ~OnlyWhitespace(text)) =>
    /\ (sentence_count < 1 \/ sentence_count > 20) =>
         /\ started = <<>>
         /\ pc \in {"start", "done"}
         /\ pc = "done" => ret = Raised
    /\ (sentence_count >= 1 /\ sentence_count <= 20 /\ pc # "start") =>
         \/ pc = "attempt" /\ attempt = 0 /\ ret = Pending
         \/ started # <<>>

C7_Witness ==
  /\ method = "extractive"
  /\ ~OnlyWhitespace(text)
  /\ sentence_count = 20
  /\ started # <<>>

C7_WitnessRejected ==
  /\ method = "extractive"
  /\ ~OnlyWhitespace(text)
  /\ sentence_count = 21
  /\ pc = "done"

(***************************************************************************)
(* Properties of batch_summarization (SpecBatch)                           *)
(***************************************************************************)
\* The document tasks that are inside a summarization call.
InsideCall == {t \in Tasks : tpc[t] = "sleeping"}

\* C8: at any moment of a batch at most 5 documents are inside a
\* summarization call: a task is inside only while it holds one of the 5
\* semaphore slots, and gives its slot back when its call ends, however it
\* ends.
C8_AtMostFiveInsideCall ==
  /\ Cardinality(InsideCall) <= 5
  /\ semaphore >= 0
  /\ semaphore + Cardinality(InsideCall) = 5
  /\ (\E t \in Tasks : tpc[t] = "waiting") => (semaphore = 0 \/ \E u \in Tasks : tpc[u] = "done")

C8_Witness ==
  /\ Cardinality(InsideCall) = 5
  /\ \E t \in Tasks : tpc[t] = "waiting"

C8_WitnessReleased ==
  /\ tpc[MaxDocs] = "sleeping"
  /\ Cardinality(InsideCall) = 5
  /\ \E t \in Tasks : tpc[t] = "done" /\ outcome[t] = Raised /\ ~TextIsEmpty(documents[t])

\* C9: under every interleaving of the document tasks the statistics
\* satisfy total_requests = successful_requests + failed_requests, and no
\* update is lost: total_requests has grown (from 0) by exactly the number
\* of _update_stats calls made, one per call that returned a result or
\* raised.
C9_StatsConsistent ==
  /\ stats.total_requests = stats.successful_requests + stats.failed_requests
  /\ stats.total_requests = update_calls
  /\ stats.successful_requests =
       Cardinality({t \in Tasks : outcome[t].class = "SummaryResult"})
  /\ stats.failed_requests = Cardinality({t \in Tasks : outcome[t] = Raised})

C9_Witness ==
  /\ batch_ret.class = "list"
  /\ stats.successful_requests >= 2
  /\ stats.failed_requests >= 2
  /\ stats.total_requests = update_calls
  /\ update_calls < MaxDocs

C9_WitnessInterleaved ==
  /\ Cardinality(InsideCall) >= 2
  /\ stats.successful_requests >= 1
  /\ stats.failed_requests >= 1

\* The results of the documents whose call returned one, from document i on,
\* in document order.
RECURSIVE ResultsFrom(_)
ResultsFrom(i) ==
  IF i > Len(documents) THEN <<>>
  ELSE (IF outcome[i].class = "SummaryResult" THEN <<outcome[i]>> ELSE <<>>)
         \o ResultsFrom(i + 1)

\* C10: batch_summarization does not raise because a document failed: it
\* returns a list once every document task has ended; a document whose call
\* raised contributes None and is dropped, and the list holds exactly the
\* SummaryResults of the documents whose call returned one, in the order of
\* the input documents.
C10_BatchReturnsSuccessfulInOrder ==
  /\ batch_ret.class \in {"pending", "list"}
  /\ batch_ret.class = "list" =>
       /\ \A t \in Tasks : tpc[t] = "done"
       /\ Len(results) = Len(documents)
       /\ \A t \in Tasks :
            /\ results[t].class \in {"SummaryResult", "None"}
            /\ outcome[t] = Raised => results[t] = None
       /\ batch_ret.items = ResultsFrom(1)
       /\ \A i \in 1..Len(batch_ret.items) :
            /\ batch_ret.items[i].class = "SummaryResult"
            /\ batch_ret.items[i] = outcome[batch_ret.items[i].document]
       /\ \A i, j \in 1..Len(batch_ret.items) :
            i < j => batch_ret.items[i].document < batch_ret.items[j].document

C10_Witness ==
  /\ batch_ret.class = "list"
  /\ Len(batch_ret.items) >= 2
  /\ \E i, j, k \in Tasks :
       /\ i < j /\ j < k
       /\ outcome[i].class = "SummaryResult"
       /\ outcome[j] = Raised
       /\ outcome[k].class = "SummaryResult"

(***************************************************************************)
(* The other programs leave the summarizer as constructed.                 *)
(***************************************************************************)
summarizerVars ==
  <<method, sentence_count, summary_length, stats, update_calls, callVars, batchVars>>

NoSummarizer ==
  /\ method = "extractive"
  /\ sentence_count = DefaultSentenceCount
  /\ summary_length = "medium"
  /\ stats = NoStats
  /\ update_calls = 0
  /\ NoCall
  /\ NoBatch

(***************************************************************************)
(* A ConversationManager used on its own: constructed with any             *)
(* max_history, then messages are added.                                   *)
(***************************************************************************)
InitConversation ==
  /\ app = "conversation"
  /\ calls = 0
  /\ conversation \in {ConversationManager(SystemPrompt, h) : h \in 0..MaxHistory}
  /\ loop = NoLoop
  /\ chat = NewChat
  /\ translator = NewTranslator
  /\ analysis = NewAnalysis
  /\ tester = NewTester
  /\ NoSummarizer

AddUserMessage ==
  /\ app = "conversation"
  /\ calls < MaxAdds
  /\ \E content \in Contents : conversation' = add_user_message(conversation, content)
  /\ calls' = calls + 1
  /\ UNCHANGED <<app, loop, chat, translator, analysis, tester, summarizerVars>>

AddAssistantMessage ==
  /\ app = "conversation"
  /\ calls < MaxAdds
  /\ \E content \in Contents : conversation' = add_assistant_message(conversation, content)
  /\ calls' = calls + 1
  /\ UNCHANGED <<app, loop, chat, translator, analysis, tester, summarizerVars>>

SpecConversation == InitConversation /\ [][AddUserMessage \/ AddAssistantMessage]_vars

(***************************************************************************)
(* Properties of ConversationManager (SpecConversation)                    *)
(***************************************************************************)

\* C12: after any sequence of add_user_message and add_assistant_message
\* calls, for every max_history >= 0, the first message is the original
\* system message, at most max_history messages follow it, and none of
\* those is a system message.
C12_SystemMessageThenAtMostMaxHistory ==
  app = "conversation" =>
    /\ conversation.messages[1] = SystemMessage(SystemPrompt)
    /\ Len(conversation.messages) <= conversation.max_history + 1
    /\ \A i \in 2..Len(conversation.messages) :
         conversation.messages[i].role # "system"

(***************************************************************************)
(* The interactive programs: the summarizer's menu, the chat, the          *)
(* translator.  Each step is one iteration of the program's input loop.    *)
(***************************************************************************)
LoopApps == {"menu", "chat", "translator"}

CanRead == loop.running /\ loop.reads < MaxReads

\* KeyboardInterrupt raised by input().
InputInterrupted ==
  /\ app \in LoopApps \cup {"analyzer"}
  /\ CanRead
  /\ loop' = LoopExcept(ReadNothing(loop), "KeyboardInterrupt")
  /\ UNCHANGED <<app, calls, conversation, chat, translator, analysis, tester, summarizerVars>>

\* Another exception raised by input() (EOFError: the input has ended).
InputFails ==
  /\ app \in LoopApps \cup {"analyzer"}
  /\ CanRead
  /\ loop' = LoopExcept(ReadNothing(loop), "Exception")
  /\ UNCHANGED <<app, calls, conversation, chat, translator, analysis, tester, summarizerVars>>

\* "if not user_input: continue"
ChatBlank ==
  /\ app = "chat"
  /\ CanRead
  /\ \E raw \in ChatLines :
       /\ Strip(raw) = <<>>
       /\ loop' = ReadLine(loop, raw)
  /\ UNCHANGED <<app, calls, conversation, chat, translator, analysis, tester, summarizerVars>>

\* "if user_input.startswith('/'): ... continue".  Each branch changes the
\* state first and prints afterwards; console_ok is whether the print works.
ChatCommand ==
  /\ app = "chat"
  /\ CanRead
  /\ \E raw \in ChatLines, console_ok \in BOOLEAN :
       LET user_input == Strip(raw) IN
       /\ IsCommand(user_input)
       /\ chat' = CommandChat(chat, user_input)
       /\ conversation' = CommandConversation(conversation, chat, user_input)
       /\ loop' = IF ~console_ok THEN LoopExcept(ReadLine(loop, raw), "Exception")
                  ELSE IF user_input = <<"/", "quit">> THEN LoopBreak(ReadLine(loop, raw))
                  ELSE ReadLine(loop, raw)
  /\ UNCHANGED <<app, calls, translator, analysis, tester, summarizerVars>>

\* A chat message: handle_streaming_response or handle_non_streaming_response.
\* Both add the user message, print, and then send the request, with
\* self.conversation.get_messages(), inside their own try / except Exception.
ChatMessage ==
  /\ app = "chat"
  /\ CanRead
  /\ \E raw \in ChatLines, console_ok \in BOOLEAN, answer \in ChatAnswers :
       LET user_input == Strip(raw)
           asked == add_user_message(conversation, user_input)
       IN
       /\ user_input # <<>>
       /\ ~IsCommand(user_input)
       /\ IF console_ok
          THEN /\ conversation' = IF chat.streaming_mode
                                  THEN handle_streaming_response(asked, answer)
                                  ELSE handle_non_streaming_response(asked, answer)
               /\ chat' = [chat EXCEPT !.requests = @ + 1, !.sent = asked.messages,
                                       !.error = ChatError(chat.streaming_mode, answer)]
               /\ loop' = ReadLine(loop, raw)
          ELSE /\ conversation' = asked
               /\ chat' = chat
               /\ loop' = LoopExcept(ReadLine(loop, raw), "Exception")
  /\ UNCHANGED <<app, calls, translator, analysis, tester, summarizerVars>>

\* The demonstrations that main runs before interactive_mode: direct calls
\* of the AzureTranslator methods, and translate_and_display.
TranslatorDemo ==
  /\ app = "translator"
  /\ loop.reads = 0 /\ loop.running
  /\ calls < MaxDemoCalls
  /\ calls' = calls + 1
  /\ \E a \in TranslatorAnswers :
       \/ \E m \in ApiMethods : translator' = CallApi(translator, m, a)
       \/ /\ translator' = translate_and_display(translator, <<"h", "i">>, <<"fr">>, a)
          /\ ~HandlerRaised(translator')
  /\ UNCHANGED <<app, loop, conversation, chat, analysis, tester, summarizerVars>>

\* 'quit', 'history', 'detect', 'lang:XX' and the empty line.
TranslatorCommand ==
  /\ app = "translator"
  /\ CanRead
  /\ \E raw \in TranslatorLines :
       LET user_input == Strip(raw) IN
       /\ \/ Lower(user_input) \in {<<"quit">>, <<"history">>, <<"detect">>}
          \/ user_input = <<>>
          \/ StartsWithLang(user_input)
       /\ loop' = IF Lower(user_input) = <<"quit">> THEN LoopBreak(ReadLine(loop, raw))
                  ELSE ReadLine(loop, raw)
       /\ translator' =
            CASE Lower(user_input) \in {<<"quit">>, <<"history">>} -> translator
              [] Lower(user_input) = <<"detect">> -> [translator EXCEPT !.detect_mode = TRUE]
              [] StartsWithLang(user_input) ->
                   [translator EXCEPT !.target_lang = Strip(Tail(user_input))]
              [] OTHER -> translator
  /\ UNCHANGED <<app, calls, conversation, chat, analysis, tester, summarizerVars>>

\* "elif user_input:", a text to detect or to translate.
TranslatorText ==
  /\ app = "translator"
  /\ CanRead
  /\ \E raw \in TranslatorLines, a \in TranslatorAnswers :
       LET user_input == Strip(raw) IN
       /\ user_input # <<>>
       /\ Lower(user_input) \notin {<<"quit">>, <<"history">>, <<"detect">>}
       /\ ~StartsWithLang(user_input)
       /\ translator' = TranslateOrDetect(translator, user_input, a)
       /\ loop' = LoopExcept(ReadLine(loop, raw),
                             IF HandlerRaised(translator') THEN "Exception" ELSE "none")
  /\ UNCHANGED <<app, calls, conversation, chat, analysis, tester, summarizerVars>>

(***************************************************************************)
(* 05-text-summarizer.py: InteractiveSummarizer.run, the menu.  A mode     *)
(* reads its text with input() outside any try, and makes its summarizer   *)
(* call inside "try ... except Exception: print".                          *)
(***************************************************************************)
MenuLines ==
  {<<>>, <<"1">>, <<"2">>, <<"3">>, <<"4">>, <<"5">>, <<"6">>, <<" ", "6", " ">>, <<"7">>}

\* How a mode ends: its own input() raises (KeyboardInterrupt; Exception,
\* the input has ended); "empty", it returns without a call; or it makes its
\* call, which returns a result, raises, or returns None; all of these the
\* mode handles itself.
ModeOutcomes == {"KeyboardInterrupt", "Exception", "empty", "SummaryResult", "raised", "None"}

\* The summarizer's statistics after the mode's call on a text of one character.
ModeStats(s, o) ==
  CASE o = "SummaryResult" -> update_stats(s, 1, TRUE)
    [] o = "raised" -> update_stats(s, 1, FALSE)
    [] OTHER -> s

\* Choices "1" to "3": _extractive_mode, _abstractive_mode, _conversation_mode.
MenuMode ==
  /\ app = "menu"
  /\ CanRead
  /\ \E raw \in MenuLines, o \in ModeOutcomes :
       /\ Strip(raw) \in {<<"1">>, <<"2">>, <<"3">>}
       /\ stats' = ModeStats(stats, o)
       /\ update_calls' = IF o \in {"SummaryResult", "raised"} THEN update_calls + 1
                          ELSE update_calls
       /\ loop' = LoopExcept(ReadLine(loop, raw),
                               IF o \in {"KeyboardInterrupt", "Exception"} THEN o ELSE "none")
  /\ UNCHANGED <<app, calls, conversation, chat, translator, analysis, tester,
                 inputVars, callVars, batchVars>>

\* Choice "4": _batch_mode, here with two documents; batch_summarization
\* counts each document's request.
MenuBatch ==
  /\ app = "menu"
  /\ CanRead
  /\ \E raw \in MenuLines, o \in {"KeyboardInterrupt", "Exception", "empty", "batch"},
        o1, o2 \in {"SummaryResult", "raised"} :
       /\ Strip(raw) = <<"4">>
       /\ stats' = IF o = "batch" THEN ModeStats(ModeStats(stats, o1), o2) ELSE stats
       /\ update_calls' = IF o = "batch" THEN update_calls + 2 ELSE update_calls
       /\ loop' = LoopExcept(ReadLine(loop, raw),
                               IF o \in {"KeyboardInterrupt", "Exception"} THEN o ELSE "none")
  /\ UNCHANGED <<app, calls, conversation, chat, translator, analysis, tester,
                 inputVars, callVars, batchVars>>

\* Choices "5" (statistics), "6" (exit) and anything else.
MenuOther ==
  /\ app = "menu"
  /\ CanRead
  /\ \E raw \in MenuLines :
       /\ Strip(raw) \notin {<<"1">>, <<"2">>, <<"3">>, <<"4">>}
       /\ loop' = IF Strip(raw) = <<"6">> THEN LoopBreak(ReadLine(loop, raw))
                  ELSE ReadLine(loop, raw)
  /\ UNCHANGED <<app, calls, conversation, chat, translator, analysis, tester, summarizerVars>>

\* One of the three programs is started.
InitLoops ==
  /\ app \in LoopApps
  /\ NoPrograms
  /\ NoSummarizer

NextLoops ==
  \/ InputInterrupted \/ InputFails
  \/ MenuMode \/ MenuBatch \/ MenuOther
  \/ ChatBlank \/ ChatCommand \/ ChatMessage
  \/ TranslatorDemo \/ TranslatorCommand \/ TranslatorText

SpecLoops == InitLoops /\ [][NextLoops]_vars

(***************************************************************************)
(* chat_with_gpt.py: the chat after earlier exchanges                      *)
(***************************************************************************)
\* The most exchanges that took place before the ones followed step by step.
MaxEarlier == 5

\* The conversation after k answered exchanges, as the handlers build it.
RECURSIVE EarlierExchanges(_, _)
EarlierExchanges(c, k) ==
  IF k = 0 THEN c
  ELSE LET asked == add_user_message(EarlierExchanges(c, k - 1),
                                     IF k % 2 = 1 THEN <<"h", "i">> ELSE <<"y", "o">>)
       IN update_token_count(add_assistant_message(asked, <<"o", "k">>), 7)

\* The chat with a history that is about to reach, or has reached,
\* max_history messages.
InitChatHistory ==
  /\ app = "chat"
  /\ calls = 0
  /\ conversation \in
       {EarlierExchanges(ConversationManager(SystemPrompt, DefaultMaxHistory), k) :
          k \in (MaxEarlier - 1)..MaxEarlier}
  /\ loop = NoLoop
  /\ chat = NewChat
  /\ translator = NewTranslator
  /\ analysis = NewAnalysis
  /\ tester = NewTester
  /\ NoSummarizer

SpecChatHistory ==
  InitChatHistory
  /\ [][InputInterrupted \/ InputFails \/ ChatBlank \/ ChatCommand \/ ChatMessage]_vars

(***************************************************************************)
(* first_ai_project.py: run_sample_analysis, then interactive_mode         *)
(***************************************************************************)
\* user_input = input(...).strip()
ReadRuns(l, raw) ==
  [l EXCEPT !.reads = @ + 1, !.got = TRUE, !.line = StripRuns(raw), !.exc = "none"]

InitAnalyzer ==
  /\ app = "analyzer"
  /\ NoPrograms
  /\ NoSummarizer

\* A call of analyze_text before the interactive mode, as run_sample_analysis
\* makes them; the text is any text.
AnalyzeCall ==
  /\ app = "analyzer"
  /\ loop.reads = 0 /\ loop.running
  /\ calls < MaxDemoCalls
  /\ calls' = calls + 1
  /\ \E t \in AnalyzerTexts, answers \in AnswerLists :
       analysis' = Analyzed(analysis, analyze_text(t, answers))
  /\ UNCHANGED <<app, loop, conversation, chat, translator, tester, summarizerVars>>

\* 'quit', 'exit', 'q', or an empty line.
AnalyzerCommand ==
  /\ app = "analyzer"
  /\ CanRead
  /\ \E raw \in AnalyzerLines :
       LET user_input == StripRuns(raw) IN
       /\ LowerRuns(user_input) \in ExitWords \cup {<<>>}
       /\ loop' = IF user_input = <<>> THEN ReadRuns(loop, raw)
                  ELSE LoopBreak(ReadRuns(loop, raw))
  /\ UNCHANGED <<app, calls, conversation, chat, translator, analysis, tester, summarizerVars>>

\* analyze_text(client, user_input)
AnalyzerText ==
  /\ app = "analyzer"
  /\ CanRead
  /\ \E raw \in AnalyzerLines, answers \in AnswerLists :
       LET user_input == StripRuns(raw) IN
       /\ LowerRuns(user_input) \notin ExitWords \cup {<<>>}
       /\ analysis' = Analyzed(analysis, analyze_text(user_input, answers))
       /\ loop' = LoopExcept(ReadRuns(loop, raw),
                             IF analysis'.raised THEN "Exception" ELSE "none")
  /\ UNCHANGED <<app, calls, conversation, chat, translator, tester, summarizerVars>>

SpecAnalyzer ==
  InitAnalyzer
  /\ [][InputInterrupted \/ InputFails \/ AnalyzeCall \/ AnalyzerCommand \/ AnalyzerText]_vars

\* What C24 requires of every step that adds a message (of either role).
C24_Step ==
  (app = "conversation" /\ calls' = calls + 1 /\ conversation.max_history >= 1) =>
    \E role \in {"user", "assistant"}, content \in {<<"h", "i">>, <<"y", "o">>} :
      LET h == conversation.max_history
          all == Tail(conversation.messages) \o <<[role |-> role, content |-> content]>>
          kept == conversation'.messages
      IN /\ kept[1] = conversation.messages[1]
         /\ IF Len(all) > h
              THEN /\ Len(kept) = h + 1
                   /\ \A k \in 1..h : kept[1 + k] = all[Len(all) - h + k]
              ELSE Tail(kept) = all

\* C24: when adding a message makes a ConversationManager with
\* max_history >= 1 hold more than max_history messages besides the system
\* message, trimming drops the oldest of them and keeps exactly the most
\* recent max_history ones, in their original order.
C24_TrimKeepsMostRecent == [][C24_Step]_vars

\* With max_history = 2 a fourth message was added, and the two messages
\* kept differ from one another.
C24_Witness ==
  /\ app = "conversation"
  /\ conversation.max_history = 2
  /\ calls = 4
  /\ Len(conversation.messages) = 3
  /\ conversation.messages[2] # conversation.messages[3]

\* What C25 requires of every step that sends a request.
C25_Step ==
  (app = "chat" /\ chat'.requests = chat.requests + 1) =>
    /\ Len(chat'.sent) >= 2
    /\ chat'.sent[1] =
         [role |-> "system", content |-> <<"You are a helpful, knowledgeable assistant">>]
    /\ chat'.sent[Len(chat'.sent)] = [role |-> "user", content |-> loop'.line]

\* C25: every chat request sent by InteractiveChatApp, streaming or not,
\* with the default max_history of 10 and after any number of earlier
\* exchanges, carries a message list whose first element is the system
\* message and whose last element is the user message just entered.
C25_RequestFromSystemToUserMessage == [][C25_Step]_vars

\* A second request was sent, in non-streaming mode, with a history already
\* trimmed to the system message and max_history = 10 others.
C25_Witness ==
  /\ app = "chat"
  /\ chat.requests = 2
  /\ ~chat.streaming_mode
  /\ Len(chat.sent) = 11

\* What C26 requires of every step that sends a request.
C26_Step ==
  (app = "chat" /\ chat'.requests = chat.requests + 1) =>
    LET entered == [role |-> "user", content |-> loop'.line]
        before == conversation.messages
        after == conversation'.messages
    IN /\ chat'.error =>
            /\ after = IF Len(before) >= 11
                       THEN <<before[1]>> \o SubSeq(before, 3, Len(before)) \o <<entered>>
                       ELSE Append(before, entered)
            /\ conversation'.total_tokens = conversation.total_tokens
       /\ (chat.error /\ before[Len(before)].role = "user") =>
            chat'.sent[Len(chat'.sent) - 1] = before[Len(before)]

\* C26: when a chat request fails in handle_streaming_response or
\* handle_non_streaming_response, the user message added before the request
\* stays in the history, no assistant message is added for it and the token
\* total is unchanged; the next request carries the unanswered user message.
C26_FailedRequestLeavesUserMessage == [][C26_Step]_vars

\* Two requests in a row failed, the second in non-streaming mode: the
\* history ends with the two unanswered user messages.
C26_Witness ==
  /\ app = "chat"
  /\ chat.error /\ ~chat.streaming_mode
  /\ chat.requests = 2
  /\ Len(chat.sent) >= 3
  /\ chat.sent[Len(chat.sent) - 1].role = "user"
  /\ conversation.messages = chat.sent

\* C22: every call of extractive_summarization, abstractive_summarization
\* or conversation_summarization that finishes has updated the statistics
\* exactly once: total_requests has grown by 1, with successful_requests
\* incremented when the call returned a result and failed_requests otherwise.
C22_FinishedCallCountedOnce ==
  pc = "done" =>
    /\ update_calls = 1
    /\ stats.total_requests = 1
    /\ IF ret.class \in {"SummaryResult", "ConversationSummary"}
         THEN stats.successful_requests = 1 /\ stats.failed_requests = 0
         ELSE stats.successful_requests = 0 /\ stats.failed_requests = 1

\* C23: every call of conversation_summarization eventually finishes, all
\* its HTTP requests being answered: neither the retry loop nor the loop
\* polling the job status runs forever.
C23_ConversationCallFinishes ==
  (method = "conversation") => <>(pc = "done")

(***************************************************************************)
(* Properties of the interactive programs (SpecLoops)                      *)
(***************************************************************************)
\* This step is an iteration of the input loop.
Iteration == loop'.reads = loop.reads + 1

\* This step is an iteration in which input() returned the line l.
Entered(l) == Iteration /\ loop'.got /\ loop'.line = l

SlashLine(l) == l # <<>> /\ Head(l) = "/"

\* What C11 requires of every step.
C11_Step ==
  app \in LoopApps =>
       /\ ~loop.running => loop' = loop
       /\ (Iteration /\ loop'.exc = "KeyboardInterrupt") => ~loop'.running
       /\ (Iteration /\ loop'.exc = "Exception") =>
            /\ loop'.running
            /\ loop'.reported = loop.reported + 1

\* C11: in the three input loops a keyboard interrupt raised while reading
\* input ends the loop, and once the loop has ended no input is read; any
\* other exception raised in an iteration is reported and the loop is still
\* running, ready to read the next input.
C11_InterruptEndsLoopOtherErrorsReported == [][C11_Step]_vars

\* An error was reported, the loop went on, and an interrupt ended it.
C11_Witness ==
  /\ app = "translator"
  /\ loop.reported >= 1
  /\ loop.reads = 3
  /\ loop.exc = "KeyboardInterrupt"
  /\ ~loop.running

C11_WitnessChat ==
  /\ app = "chat" /\ loop.reported >= 1 /\ loop.exc = "KeyboardInterrupt" /\ ~loop.running

C11_WitnessMenu ==
  /\ app = "menu" /\ loop.reported >= 1 /\ loop.exc = "KeyboardInterrupt" /\ ~loop.running

\* What C13 requires of every step.
C13_Step ==
  (app = "chat" /\ Entered(<<"/", "clear">>)) =>
       /\ conversation'.messages = <<SystemMessage(chat.config.system_prompt)>>
       /\ conversation'.total_tokens = 0
       /\ chat'.streaming_mode = chat.streaming_mode
       /\ chat'.config = chat.config

\* C13: after '/clear', whatever the history before, the conversation is the
\* system message alone and its token total is 0; the streaming mode and the
\* chat configuration are as before.
C13_ClearKeepsModeAndConfig == [][C13_Step]_vars

\* '/clear' was entered in non-streaming mode after an answered message.
C13_Witness ==
  /\ app = "chat"
  /\ loop.got /\ loop.line = <<"/", "clear">>
  /\ chat.requests >= 1
  /\ ~chat.streaming_mode
  /\ Len(conversation.messages) = 1

\* What C14 requires of every step.
C14_Step ==
  (app = "chat" /\ Iteration /\ loop'.got) =>
       /\ (SlashLine(loop'.line) \/ loop'.line = <<>>) => chat'.requests = chat.requests
       /\ (SlashLine(loop'.line) /\ loop'.line # <<"/", "clear">>) =>
            conversation' = conversation
       /\ loop'.line = <<>> => (conversation' = conversation /\ chat' = chat)
       /\ ~loop'.running => loop'.line = <<"/", "quit">>

\* C14: a line starting with '/' never causes a chat request and, unless it
\* is '/clear', leaves the conversation history and the token total
\* unchanged; an empty line sends nothing and changes nothing; of all lines
\* only '/quit' ends the loop.
C14_CommandsSendNothing == [][C14_Step]_vars

\* An unknown command was entered after an answered message; the history
\* and the token total are still there and the loop goes on.
C14_Witness ==
  /\ app = "chat"
  /\ loop.got /\ loop.line = <<"/", "exit">>
  /\ loop.running
  /\ chat.requests = 1
  /\ Len(conversation.messages) = 3
  /\ conversation.total_tokens > 0

C14_WitnessQuit ==
  /\ app = "chat" /\ loop.got /\ loop.line = <<"/", "quit">> /\ ~loop.running
  /\ chat.requests = 2

PlainTexts == {<<"h", "i">>, <<"y", "o">>}

\* What C15 requires of every step.
C15_Step ==
  (app = "translator" /\ Iteration /\ loop'.got) =>
       /\ (loop'.line \in PlainTexts /\ translator.detect_mode) =>
            /\ translator'.detect_calls = translator.detect_calls + 1
            /\ translator'.translate_calls = translator.translate_calls
            /\ ~translator'.detect_mode
       /\ (loop'.line \in PlainTexts /\ ~translator.detect_mode) =>
            /\ translator'.translate_calls = translator.translate_calls + 1
            /\ translator'.detect_calls = translator.detect_calls
            /\ ~translator'.detect_mode
       /\ loop'.line \in {<<"history">>, <<"lang:", "fr">>} =>
            translator'.detect_mode = translator.detect_mode
       /\ loop'.line = <<"detect">> => translator'.detect_mode

\* C15: after 'detect' the next text entered is language-detected and not
\* translated, and detect mode is then off, so that the text after it is
\* translated; 'history', 'lang:XX' and 'detect' do not consume detect mode.
C15_DetectModeLastsOneText == [][C15_Step]_vars

\* What C16 requires of every step.
C16_Step ==
  (app = "translator"
      /\ translator'.api_calls = translator.api_calls + 1
      /\ translator'.last.answer \in {"http_error", "network_error"}) =>
       /\ ~translator'.last.raised
       /\ translator'.last.value = <<>>
       /\ translator'.translation_history = translator.translation_history
       /\ loop'.exc = "none"

\* C16: translate_text, detect_language and transliterate_text answer a
\* request failure (network error, HTTP error status) by returning an empty
\* list without raising, and the translation history is then unchanged.
C16_RequestFailureGivesEmptyList == [][C16_Step]_vars

\* An interactive translation failed with an HTTP error status after an
\* earlier translation had entered the history.
C16_Witness ==
  /\ app = "translator"
  /\ loop.got /\ loop.line \in PlainTexts
  /\ translator.last.method = "translate_text"
  /\ translator.last.answer = "http_error"
  /\ Len(translator.translation_history) >= 1

C16_WitnessTransliterate ==
  /\ app = "translator"
  /\ translator.last.method = "transliterate_text"
  /\ translator.last.answer = "network_error"

(***************************************************************************)
(* Properties of analyze_text and its loop (SpecAnalyzer)                  *)
(***************************************************************************)
Blank(t) == \A i \in DOMAIN t : t[i].c = " "

\* The character at position i (from 1) of a text.
RECURSIVE CharAt(_, _)
CharAt(t, i) == IF i <= Head(t).n THEN Head(t).c ELSE CharAt(Tail(t), i - Head(t).n)

\* The positions compared: the two first and the two last of a text of
\* length n (the texts tried differ from one another there).
Ends(n) == {1, 2, n - 1, n} \cap (1..n)

\* What C17 requires of every step.
C17_Step ==
  (app = "analyzer" /\ analysis'.n = analysis.n + 1) =>
       /\ ~analysis'.raised
       /\ \A i \in DOMAIN analysis'.calls :
            analysis'.calls[i].answer # "ok" =>
              /\ i = Len(analysis'.calls)
              /\ analysis'.printed # "none"
       /\ Iteration => (loop'.running /\ loop'.exc = "none")

\* C17: analyze_text never raises to its caller; when a service call fails
\* the error is printed and no further call is made for that text (a failed
\* language detection is followed by no sentiment or key-phrase call), and
\* the interactive loop is still running, ready for the next input.
C17_FailureSkipsRestNeverRaises == [][C17_Step]_vars

\* In the interactive loop the language detection failed with an unexpected
\* exception: one call, a message, and the loop goes on.
C17_Witness ==
  /\ app = "analyzer"
  /\ loop.got /\ loop.running
  /\ analysis.calls = <<[step |-> "detect_language", answer |-> "exception"]>>
  /\ analysis.printed = "Unexpected error"

\* C18: analyze_text never sends more than 5000 characters: a longer text is
\* cut to its first 5000 characters, a text of at most 5000 characters is
\* sent unchanged, an empty or whitespace-only text causes no call.
C18_AtMostTextLimitSent ==
  (app = "analyzer" /\ analysis.n > 0) =>
    LET t == analysis.text
        d == analysis.sent
    IN /\ Blank(t) => analysis.calls = <<>>
       /\ ~Blank(t) =>
            /\ analysis.calls # <<>>
            /\ TextLen(d) = IF TextLen(t) > 5000 THEN 5000 ELSE TextLen(t)
            /\ \A i \in Ends(TextLen(d)) : CharAt(d, i) = CharAt(t, i)

\* A text of 5001 characters was analyzed through all three steps.
C18_Witness ==
  /\ app = "analyzer"
  /\ TextLen(analysis.text) = 5001
  /\ TextLen(analysis.sent) = 5000
  /\ Len(analysis.calls) = 3

C18_WitnessBlank ==
  /\ app = "analyzer" /\ analysis.n > 0
  /\ TextLen(analysis.text) = 5001 /\ Blank(analysis.text)

\* C19, as stated: a service call of analyze_text that is answered with
\* HTTP 429 is retried (a bounded number of times, with backoff), so the
\* first call of a step answered 429 is followed by another call of that step.
C19_RateLimitedCallRetried ==
  app = "analyzer" =>
    \A i \in DOMAIN analysis.calls :
      (/\ analysis.calls[i].answer = "429"
       /\ \A j \in 1..(i - 1) : analysis.calls[j].step # analysis.calls[i].step)
      => \E j \in (i + 1)..Len(analysis.calls) :
           analysis.calls[j].step = analysis.calls[i].step

\* C19, amended: analyze_text makes each service call at most once; a call
\* answered with HTTP 429 is not retried: it is the last call for that text
\* and the rate-limit message is printed.
C19_RateLimitedCallNotRetried ==
  app = "analyzer" =>
    /\ \A i, j \in DOMAIN analysis.calls :
         analysis.calls[i].step = analysis.calls[j].step => i = j
    /\ \A i \in DOMAIN analysis.calls :
         analysis.calls[i].answer = "429" =>
           /\ i = Len(analysis.calls)
           /\ analysis.printed = "Rate limit exceeded"

\* The sentiment call was answered 429 after a successful detection.
C19_Witness ==
  /\ app = "analyzer"
  /\ Len(analysis.calls) = 2
  /\ analysis.calls[2] = [step |-> "analyze_sentiment", answer |-> "429"]

(***************************************************************************)
(* text_analysis_sentiment.py: calls of comprehensive_analysis             *)
(***************************************************************************)
InitTextAnalyzer ==
  /\ app = "text_analyzer"
  /\ calls = 0
  /\ conversation = ConversationManager(SystemPrompt, DefaultMaxHistory)
  /\ loop = NoLoop
  /\ chat = NewChat
  /\ translator = NewTranslator
  /\ analysis = [n |-> 0, text |-> <<>>, calls |-> <<>>, raised |-> FALSE,
                 result |-> [class |-> "none"]]
  /\ tester = NewTester
  /\ NoSummarizer

\* One call of comprehensive_analysis, as demonstrate_comprehensive_analysis
\* and batch_analysis make them; the service answers each request normally,
\* with an error for the document, or with an HTTP error.
ComprehensiveAnalysis ==
  /\ app = "text_analyzer"
  /\ calls < MaxDemoCalls
  /\ calls' = calls + 1
  /\ \E t \in {<<>>, <<"h", "i">>, <<"y", "o">>} :
     \E answers \in [1..4 -> {"ok", "document_error", "http_error"}] :
       analysis' = [n |-> analysis.n + 1] @@ comprehensive_analysis(t, answers)
  /\ UNCHANGED <<app, loop, conversation, chat, translator, tester, summarizerVars>>

SpecTextAnalyzer == InitTextAnalyzer /\ [][ComprehensiveAnalysis]_vars

\* C27: AzureTextAnalyzer.comprehensive_analysis returns a TextAnalysisResult
\* for every input text; an HTTP error of one of its four underlying service
\* requests does not make it raise.
C27_ComprehensiveAnalysisReturnsResult ==
  (app = "text_analyzer" /\ analysis.n > 0) =>
    /\ ~analysis.raised
    /\ analysis.result.class = "TextAnalysisResult"

(***************************************************************************)
(* setup_test.py: run_all_tests, one step per test method                  *)
(***************************************************************************)
\* os.getenv gives "None" for an unset variable, "" for an empty one.
InitTester ==
  /\ app = "tester"
  /\ calls = 0
  /\ conversation = ConversationManager(SystemPrompt, DefaultMaxHistory)
  /\ loop = NoLoop
  /\ chat = NewChat
  /\ translator = NewTranslator
  /\ analysis = NewAnalysis
  /\ tester \in {[NewTester EXCEPT !.credentials = c] :
                   c \in [1..3 -> [endpoint : {"None", "", "set"}, key : {"None", "", "set"}]]}
  /\ NoSummarizer

TestLanguageService ==
  /\ app = "tester"
  /\ Len(tester.test_results) = 0
  /\ \E answers \in [1..3 -> {"ok", "error"}] :
       tester' = Tested(tester, 1, test_language_service(services_configured(tester.credentials)[1], answers))
  /\ UNCHANGED <<app, calls, conversation, loop, chat, translator, analysis, summarizerVars>>

\* The read operation answers the status polls up to MaxPolls times with
\* "running", then with something else.
TestComputerVision ==
  /\ app = "tester"
  /\ Len(tester.test_results) = 1
  /\ \E answers \in [1..2 -> {"ok", "error"}], k \in 0..MaxPolls,
        last \in {"notStarted", "succeeded", "failed", "error"} :
       LET statuses == [i \in 1..k |-> "running"] \o <<last>> IN
       tester' = Tested(tester, 2, test_computer_vision(services_configured(tester.credentials)[2],
                                                        answers, statuses))
  /\ UNCHANGED <<app, calls, conversation, loop, chat, translator, analysis, summarizerVars>>

TestAzureOpenAI ==
  /\ app = "tester"
  /\ Len(tester.test_results) = 2
  /\ \E answers \in [1..2 -> {"ok", "error"}] :
       tester' = Tested(tester, 3, test_azure_openai(services_configured(tester.credentials)[3], answers))
  /\ UNCHANGED <<app, calls, conversation, loop, chat, translator, analysis, summarizerVars>>

\* The end of run_all_tests.
DisplaySummary ==
  /\ app = "tester"
  /\ Len(tester.test_results) = 3
  /\ ~tester.saved
  /\ tester' = display_summary(tester)
  /\ UNCHANGED <<app, calls, conversation, loop, chat, translator, analysis, summarizerVars>>

NextTester == TestLanguageService \/ TestComputerVision \/ TestAzureOpenAI \/ DisplaySummary

SpecTester == InitTester /\ [][NextTester]_vars

(***************************************************************************)
(* Properties of AzureAITester (SpecTester)                                *)
(***************************************************************************)
Missing(v) == v = "None" \/ v = ""

\* C20: a test of a service whose endpoint or key is missing returns status
\* 'skipped' and makes no service call; every test method returns a result
\* whose status is 'skipped', 'success' or 'error', and never raises.
C20_MissingCredentialsSkipTest ==
  app = "tester" =>
    \A i \in DOMAIN tester.test_results :
      LET r == tester.test_results[i] IN
      /\ r.status \in {"skipped", "success", "error"}
      /\ ~r.raised
      /\ (Missing(tester.credentials[i].endpoint) \/ Missing(tester.credentials[i].key)) =>
           /\ r.status = "skipped"
           /\ \A j \in DOMAIN tester.calls : tester.calls[j].service # r.service

\* The language test was skipped for an empty key although its endpoint is
\* set, the vision test succeeded and the OpenAI test failed.
C20_Witness ==
  /\ app = "tester"
  /\ Len(tester.test_results) = 3
  /\ tester.credentials[1] = [endpoint |-> "set", key |-> ""]
  /\ tester.test_results[1].status = "skipped"
  /\ tester.test_results[2].status = "success"
  /\ tester.test_results[3].status = "error"

\* C21: the loop of test_computer_vision that waits for the read operation
\* ends only once the operation has completed: the status it ends on is
\* succeeded or failed, never notStarted or running.
C21_WaitEndsOnlyWhenCompleted ==
  app = "tester" =>
    \A i \in DOMAIN tester.calls :
      (/\ tester.calls[i].call = "get_read_result"
       /\ tester.calls[i].answer # "error"
       /\ Len(tester.test_results) >= 2
       /\ \A j \in (i + 1)..Len(tester.calls) : tester.calls[j].call # "get_read_result")
      => tester.calls[i].answer \in {"succeeded", "failed"}

\* The position of a service in the order of run_all_tests.
ServiceIndex(name) ==
  CASE name = "Language Service" -> 1
    [] name = "Computer Vision" -> 2
    [] name = "Azure OpenAI" -> 3

\* C28: run_all_tests runs the three tests in the order Language Service,
\* Computer Vision, Azure OpenAI; whatever a test returns (skipped, error
\* or success) the run can go on with the next step, and the summary is
\* displayed and saved only with exactly one entry per service, in order.
C28_ThreeTestsInOrderThenSummary ==
  app = "tester" =>
    /\ Len(tester.test_results) <= 3
    /\ \A i \in DOMAIN tester.test_results :
         ServiceIndex(tester.test_results[i].service) = i
    /\ \A i, j \in DOMAIN tester.calls :
         i < j => ServiceIndex(tester.calls[i].service) <= ServiceIndex(tester.calls[j].service)
    /\ \A i \in DOMAIN tester.calls :
         ServiceIndex(tester.calls[i].service) <= Len(tester.test_results)
    /\ ~tester.saved => ENABLED NextTester
    /\ tester.saved =>
         /\ Len(tester.test_results) = 3
         /\ Len(tester.summary) = 3
         /\ \A i \in 1..3 : /\ ServiceIndex(tester.summary[i].service) = i
                             /\ tester.summary[i].status = tester.test_results[i].status

\* The summary was displayed after the language test failed, the vision
\* test was skipped and the OpenAI test succeeded.
C28_Witness ==
  /\ app = "tester"
  /\ tester.saved
  /\ tester.test_results[1].status = "error"
  /\ tester.test_results[2].status = "skipped"
  /\ tester.test_results[3].status = "success"

\* C29: when the Language Service is configured and its three service calls
\* (sentiment, key phrases, language detection) all succeed,
\* test_language_service returns a result with status 'success'.
C29_LanguageTestSucceeds ==
  (/\ app = "tester"
   /\ Len(tester.test_results) >= 1
   /\ ~Missing(tester.credentials[1].endpoint) /\ ~Missing(tester.credentials[1].key)
   /\ \A c \in {"analyze_sentiment", "extract_key_phrases", "detect_language"} :
        \E i \in DOMAIN tester.calls :
          tester.calls[i] = [service |-> "Language Service", call |-> c, answer |-> "ok"])
  => tester.test_results[1].status = "success"

(***************************************************************************)
(* The summarizer as a whole: a direct call or a batch.                    *)
(***************************************************************************)
Init == InitCall \/ InitBatch

Next == NextCall \/ NextBatch

Spec == Init /\ [][Next
    ]_vars

=============================================================================
